---- MODULE Spec2Model ----
(***************************************************************************)
(* Model of the netinstall Config object (src/modules/netinstall/          *)
(* Config.cpp): the status state machine, the synchronous "local" load,    *)
(* the asynchronous fetch of the groups document and the handling of its   *)
(* completion.                                                             *)
(*                                                                         *)
(* Everything runs on one thread.  A QNetworkReply emits finished() from   *)
(* the event loop and the connected slot Config::receivedGroupData runs    *)
(* synchronously inside that emission, so "the transport finishes reply h" *)
(* and "the slot runs" are one step.                                       *)
(***************************************************************************)
EXTENDS Integers, Sequences, FiniteSets, TLC

(* ------------------------------ bounds --------------------------------- *)
\* Number of calls of public members (setConfigurationMap, loadGroupList,
\* setStatus) made on one Config.
MaxCalls == 2

(* ------------------------------ values --------------------------------- *)
Ok == "Ok"
FailedBadConfiguration == "FailedBadConfiguration"
FailedBadData == "FailedBadData"
FailedInternalError == "FailedInternalError"
FailedNetworkError == "FailedNetworkError"

Status == { Ok, FailedBadConfiguration, FailedBadData, FailedInternalError, FailedNetworkError }
Failures == Status \ { Ok }

\* Reply handles; 0 is the null pointer.
Handles == 1 .. MaxCalls
NullReply == 0

\* URL strings used as inputs.  BadUrl is a string QUrl cannot parse.
GoodUrl == "http://example.org/groups.yaml"
BadUrl == "http://[bad"
Local == "local"
UrlStrings == { "", Local, GoodUrl, BadUrl }

\* QUrl::isValid(): an empty URL and an unparsable one are invalid.
UrlIsValid(s) == s \notin { "", BadUrl }

\* QUrl{ s }: the parsed URL.  toString() of an invalid URL is empty.
QUrlOf(s) == [ valid |-> UrlIsValid(s), text |-> IF UrlIsValid(s) THEN s ELSE "" ]

(* QVariant values: a type tag, the string held (type String) and the list *)
(* held (types List and StringList).  Group records are opaque: "A", "B".  *)
VInvalid == [ type |-> "Invalid", str |-> "", list |-> << >> ]
VString(s) == [ type |-> "String", str |-> s, list |-> << >> ]
VStringList(l) == [ type |-> "StringList", str |-> "", list |-> l ]
VList(l) == [ type |-> "List", str |-> "", list |-> l ]

\* QVariant::toString() as used on a variant of type String.
toString(v) == IF v.type = "String" THEN v.str ELSE ""
\* QVariant::toList(): a list (or string list) converts, anything else is empty.
toList(v) == IF v.type \in { "List", "StringList" } THEN v.list ELSE << >>
\* QVariant::toStringList(): a string list or a list of strings converts, a
\* string gives a list of one, anything else is empty.
toStringList(v) ==
    IF v.type \in { "StringList", "List" } THEN v.list
    ELSE IF v.type = "String" THEN << v.str >>
    ELSE << >>

\* CalamaresUtils::getString( map, key ): the string under key, else empty.
getString(v) == IF v.type = "String" THEN v.str ELSE ""

\* Configuration maps: the keys groupsUrl and groups.
GroupsUrlValues ==
    { VInvalid, VString(""), VString(Local), VString(GoodUrl), VString(BadUrl),
      VStringList(<< Local, GoodUrl >>), VList(<< Local, GoodUrl >>) }
GroupsValues ==
    { VInvalid, VList(<< >>), VList(<< "A" >>), VList(<< "A", "B" >>), VStringList(<< "A" >>),
      VString("x") }
ConfigurationMaps == [ groupsUrl : GroupsUrlValues, groups : GroupsValues ]
\* Group lists a caller hands to loadGroupList( const QVariantList& ).
GroupLists == { << >>, << "A" >>, << "A", "B" >> }
NoConfiguration == [ groupsUrl |-> VInvalid, groups |-> VInvalid ]

(* The document a reply delivers, as YAML::Load sees it: Malformed (Load   *)
(* throws), a Sequence of records, a Map (of which only the key groups is  *)
(* looked at), a Scalar or a Null document.                                *)
Doc(k, s, g) == [ kind |-> k, seq |-> s, groups |-> g ]
NoDoc == Doc("none", << >>, VInvalid)
Payloads ==
    { Doc("Malformed", << >>, VInvalid),
      Doc("Sequence", << >>, VInvalid),
      Doc("Sequence", << "A", "B" >>, VInvalid),
      Doc("Map", << >>, VInvalid),
      Doc("Map", << >>, VList(<< "A" >>)),
      Doc("Map", << >>, VString("x")),
      Doc("Scalar", << >>, VInvalid),
      Doc("Null", << >>, VInvalid) }

(* ------------------------------ state ---------------------------------- *)
VARIABLES
    alive,      \* the Config object exists (constructed, not yet destroyed)
    m_status,   \* Config::m_status
    m_reply,    \* Config::m_reply: a handle or NullReply
    m_urls,     \* Config::m_urls: sequence of SourceItem
    model,      \* rows of m_model (last setupModelData argument)
    gs,         \* values stored in GlobalStorage under "groupsUrl" (at most one)
    replies,    \* every QNetworkReply: st is "unused", "running", "finished" or "deleted"
    nCalls,     \* calls made so far on this Config
    last        \* what the last step did (signals emitted, calls made)

vars == << alive, m_status, m_reply, m_urls, model, gs, replies, nCalls, last >>

\* The signals and outgoing calls of one step, before anything happened.
NoEvents(op) ==
    [ op |-> op,               \* "init", "configure", "loadUrl", "loadData", "setStatus",
                               \* "retranslate", "complete", "orphan", "destroy"
      cfg |-> NoConfiguration, \* argument of setConfigurationMap
      arg |-> "",              \* argument of loadGroupList( url ) or of setStatus
      handle |-> NullReply,    \* reply whose finished() was emitted
      pending |-> "none",      \* m_reply on entry of the slot: "null", "unfinished", "finished"
      err |-> FALSE,           \* reply->error() != NoError
      kind |-> "none",         \* kind of document delivered
      doc |-> NoDoc,           \* the document delivered
      statusChanged |-> << >>, \* statusChanged( text ) emissions, in order
      ready |-> 0,             \* statusReady() emissions
      published |-> << >>,     \* setupModelData arguments, in order
      gets |-> 0,              \* Manager::asynchronousGet calls
      started |-> NullReply,   \* reply stored in m_reply by this step
      loads |-> 0,             \* YAML::Load calls
      released |-> NullReply,  \* reply handed to deleteLater
      gsWrites |-> 0,          \* GlobalStorage::insert calls
      uncaught |-> FALSE ]     \* an exception is propagating out of the step

\* The part of the state the member functions work on.
Obj == [ m_status |-> m_status, m_reply |-> m_reply, m_urls |-> m_urls, model |-> model,
         gs |-> gs, replies |-> replies, ev |-> last ]

\* Least unused handle.
NextHandle(c) == CHOOSE h \in Handles : /\ c.replies[h].st = "unused"
                                         /\ \A k \in Handles : k < h => c.replies[k].st # "unused"

(* --------------------------- member functions --------------------------- *)
\* Config::status(): the description of a status.
status(s) ==
    CASE s = Ok -> ""
      [] s = FailedBadConfiguration -> "Network Installation. (Disabled: Incorrect configuration)"
      [] s = FailedBadData -> "Network Installation. (Disabled: Received invalid groups data)"
      [] s = FailedInternalError -> "Network Installation. (Disabled: internal error)"
      [] s = FailedNetworkError ->
           "Network Installation. (Disabled: Unable to fetch package lists, check your network connection)"

\* setStatus that emits the description before it stores the new status.
setStatus_stale(c, s) ==
    [ c EXCEPT !.m_status = s, !.ev.statusChanged = Append(@, status(c.m_status)) ]

\* Config::retranslate, as far as the status goes: statusChanged( status() ).
retranslate(c) ==
    [ c EXCEPT !.ev.statusChanged = Append(@, status(c.m_status)) ]

\* Config::setStatus( s )
setStatus(c, s) ==
    [ c EXCEPT !.m_status = s, !.ev.statusChanged = Append(@, status(s)) ]

\* loadGroupList( const QVariantList& ) that fills the model without announcing it.
loadGroupListData_silent(c, groupData) ==
    [ c EXCEPT !.model = groupData,
               !.ev.published = Append(@, groupData) ]

\* loadGroupList( const QVariantList& ) that announces the data twice.
loadGroupListData_twice(c, groupData) ==
    [ c EXCEPT !.model = groupData,
               !.ev.published = Append(@, groupData),
               !.ev.ready = @ + 2 ]

\* Config::loadGroupList( const QVariantList& )
loadGroupListData(c, groupData) ==
    [ c EXCEPT !.model = groupData,
               !.ev.published = Append(@, groupData),
               !.ev.ready = @ + 1 ]

\* Manager::asynchronousGet as seen by the caller: a new running reply, or null.
\* Which of the two is the transport's answer (replyOk), whatever the URL: a
\* request for a URL that cannot be served is refused at once or fails later.
asynchronousGet(c, url, replyOk) ==
    IF replyOk THEN NextHandle(c) ELSE NullReply

\* Config::loadGroupList( const QUrl& ); replyOk is the transport's answer.
loadGroupListUrl(c, url, replyOk) ==
    LET c1 == IF ~QUrlOf(url).valid THEN setStatus(c, FailedBadConfiguration) ELSE c
        reply == asynchronousGet(c1, url, replyOk)
        c2 == [ c1 EXCEPT !.ev.gets = @ + 1 ]
    IN  IF reply = NullReply
        THEN setStatus(c2, FailedBadConfiguration)
        ELSE [ c2 EXCEPT !.replies[reply] = [ st |-> "running", url |-> url ],
                         !.m_reply = reply,
                         !.ev.started = reply ]

\* cqDeleter< QNetworkReply > d { m_reply } leaving scope: deleteLater and zero.
cqDeleter(c) ==
    IF c.m_reply = NullReply
    THEN c
    ELSE [ c EXCEPT !.replies[c.m_reply].st = "deleted",
                    !.ev.released = c.m_reply,
                    !.m_reply = NullReply ]

\* The try block body that handles a top-level sequence only.
tryGroupData_seqonly(c, doc) ==
    LET c1 == [ c EXCEPT !.ev.loads = @ + 1 ]
    IN  CASE doc.kind = "Malformed" -> [ c1 EXCEPT !.ev.uncaught = TRUE ]
          [] doc.kind = "Sequence" -> loadGroupListData(c1, doc.seq)
          [] OTHER -> c1

\* The body of the try block of Config::receivedGroupData; YAML::Load throws
\* YAML::Exception on a malformed document.
tryGroupData(c, doc) ==
    LET c1 == [ c EXCEPT !.ev.loads = @ + 1 ]
    IN  CASE doc.kind = "Malformed" -> [ c1 EXCEPT !.ev.uncaught = TRUE ]
          [] doc.kind = "Sequence" -> loadGroupListData(c1, doc.seq)
          [] doc.kind = "Map" -> loadGroupListData(c1, toList(doc.groups))
          [] OTHER -> c1

\* The try block without a handler for YAML::Exception.
parseGroupData_nocatch(c, doc) ==
    tryGroupData(c, doc)

\* The try block with its handler: catch ( YAML::Exception& ).
parseGroupData(c, doc) ==
    LET c1 == tryGroupData(c, doc)
    IN  IF c1.ev.uncaught
        THEN setStatus([ c1 EXCEPT !.ev.uncaught = FALSE ], FailedBadData)
        ELSE c1

\* receivedGroupData whose transfer-error branch falls through to the parser.
receivedGroupData_noreturn(c, err, doc) ==
    IF c.m_reply = NullReply \/ c.replies[c.m_reply].st # "finished"
    THEN setStatus(c, FailedInternalError)
    ELSE IF err
         THEN cqDeleter(parseGroupData(setStatus(c, FailedNetworkError), doc))
         ELSE cqDeleter(parseGroupData(c, doc))

\* receivedGroupData that returns on a transfer error before the deleter exists.
receivedGroupData_leak(c, err, doc) ==
    IF c.m_reply = NullReply \/ c.replies[c.m_reply].st # "finished"
    THEN setStatus(c, FailedInternalError)
    ELSE IF err
         THEN setStatus(c, FailedNetworkError)
         ELSE cqDeleter(parseGroupData(c, doc))

\* Config::receivedGroupData
receivedGroupData(c, err, doc) ==
    IF c.m_reply = NullReply \/ c.replies[c.m_reply].st # "finished"
    THEN setStatus(c, FailedInternalError)
    ELSE IF err
         THEN cqDeleter(setStatus(c, FailedNetworkError))
         ELSE cqDeleter(parseGroupData(c, doc))

\* Config::SourceItem::makeSourceItem
makeSourceItem(cfg, groupsUrl) ==
    IF groupsUrl = Local
    THEN [ url |-> QUrlOf(""), data |-> toList(cfg.groups) ]
    ELSE [ url |-> QUrlOf(groupsUrl), data |-> << >> ]

\* The source items setConfigurationMap appends to m_urls.
sourceItems(cfg) ==
    LET v == cfg.groupsUrl
        l == toStringList(v)
    IN  IF v.type = "String"
        THEN << makeSourceItem(cfg, toString(v)) >>
        ELSE IF v.type = "StringList"
             THEN [ i \in 1 .. Len(l) |-> makeSourceItem(cfg, l[i]) ]
             ELSE << >>

\* setConfigurationMap that stores groupsUrl before it tests it for emptiness.
setConfigurationMap_store(c, cfg, replyOk) ==
    LET c1 == [ c EXCEPT !.m_urls = @ \o sourceItems(cfg) ]
        groupsUrl == getString(cfg.groupsUrl)
        c2 == [ c1 EXCEPT !.gs = { groupsUrl }, !.ev.gsWrites = @ + 1 ]
    IN  IF groupsUrl = ""
        THEN c2
        ELSE IF groupsUrl = Local
             THEN loadGroupListData(c2, toList(cfg.groups))
             ELSE loadGroupListUrl(c2, groupsUrl, replyOk)

\* Config::setConfigurationMap
setConfigurationMap(c, cfg, replyOk) ==
    LET c1 == [ c EXCEPT !.m_urls = @ \o sourceItems(cfg) ]
        groupsUrl == getString(cfg.groupsUrl)
        c2 == [ c1 EXCEPT !.gs = { groupsUrl }, !.ev.gsWrites = @ + 1 ]
    IN  IF groupsUrl = ""
        THEN c1
        ELSE IF groupsUrl = Local
             THEN loadGroupListData(c2, toList(cfg.groups))
             ELSE loadGroupListUrl(c2, groupsUrl, replyOk)

(* ------------------------------ actions -------------------------------- *)
\* Store the object part of the state.
Commit(c) ==
    /\ m_status' = c.m_status
    /\ m_reply' = c.m_reply
    /\ m_urls' = c.m_urls
    /\ model' = c.model
    /\ gs' = c.gs
    /\ replies' = c.replies
    /\ last' = c.ev

Init ==
    /\ alive = TRUE
    /\ m_status = Ok
    /\ m_reply = NullReply
    /\ m_urls = << >>
    /\ model = << >>
    /\ gs = { }
    /\ replies = [ h \in Handles |-> [ st |-> "unused", url |-> "" ] ]
    /\ nCalls = 0
    /\ last = NoEvents("init")

\* The module is configured: setConfigurationMap( cfg ).
Configure ==
    /\ alive
    /\ nCalls < MaxCalls
    /\ \E cfg \in ConfigurationMaps, replyOk \in BOOLEAN :
         LET c0 == [ Obj EXCEPT !.ev = [ NoEvents("configure") EXCEPT !.cfg = cfg ] ]
         IN  Commit(setConfigurationMap(c0, cfg, replyOk))
    /\ nCalls' = nCalls + 1
    /\ UNCHANGED alive

\* A caller invokes the public loadGroupList( url ) directly.
LoadUrl ==
    /\ alive
    /\ nCalls < MaxCalls
    /\ \E url \in UrlStrings, replyOk \in BOOLEAN :
         LET c0 == [ Obj EXCEPT !.ev = [ NoEvents("loadUrl") EXCEPT !.arg = url ] ]
         IN  Commit(loadGroupListUrl(c0, url, replyOk))
    /\ nCalls' = nCalls + 1
    /\ UNCHANGED alive

\* A caller invokes the public loadGroupList( list ) directly.
LoadData ==
    /\ alive
    /\ nCalls < MaxCalls
    /\ \E groupData \in GroupLists :
         LET c0 == [ Obj EXCEPT !.ev = NoEvents("loadData") ]
         IN  Commit(loadGroupListData(c0, groupData))
    /\ nCalls' = nCalls + 1
    /\ UNCHANGED alive

\* A caller invokes the public setStatus( s ) directly.
SetStatus ==
    /\ alive
    /\ nCalls < MaxCalls
    /\ \E s \in Status :
         LET c0 == [ Obj EXCEPT !.ev = [ NoEvents("setStatus") EXCEPT !.arg = s ] ]
         IN  Commit(setStatus(c0, s))
    /\ nCalls' = nCalls + 1
    /\ UNCHANGED alive

\* The language changes: the slot Config::retranslate runs.
Retranslate ==
    /\ alive
    /\ LET c0 == [ Obj EXCEPT !.ev = NoEvents("retranslate") ]
       IN  Commit(retranslate(c0))
    /\ UNCHANGED << alive, nCalls >>

\* The transport finishes reply h; finished() runs the connected slot.
Complete ==
    /\ alive
    /\ \E h \in Handles, err \in BOOLEAN, doc \in Payloads :
         /\ replies[h].st = "running"
         /\ LET c0 == [ Obj EXCEPT !.replies[h].st = "finished",
                                   !.ev = [ NoEvents("complete") EXCEPT
                                              !.handle = h,
                                              !.pending =
                                                  IF m_reply = NullReply THEN "null"
                                                  ELSE IF m_reply = h THEN "finished"
                                                  ELSE "unfinished",
                                              !.err = err,
                                              !.kind = doc.kind,
                                              !.doc = doc ] ]
            IN  Commit(receivedGroupData(c0, err, doc))
    /\ UNCHANGED << alive, nCalls >>

\* Config::~Config: the destructor body is empty; Qt drops the connections.
Destroy ==
    /\ alive
    /\ alive' = FALSE
    /\ last' = NoEvents("destroy")
    /\ UNCHANGED << m_status, m_reply, m_urls, model, gs, replies, nCalls >>

\* A reply finishes after its Config is gone: no slot is connected any more.
Orphan ==
    /\ ~alive
    /\ \E h \in Handles :
         /\ replies[h].st = "running"
         /\ replies' = [ replies EXCEPT ![h].st = "finished" ]
         /\ last' = [ NoEvents("orphan") EXCEPT !.handle = h ]
    /\ UNCHANGED << alive, m_status, m_reply, m_urls, model, gs, nCalls >>

Next ==
    Configure \/ LoadUrl \/ LoadData \/ SetStatus \/ Retranslate \/ Complete \/ Destroy \/ Orphan

\* Every behaviour of a Config: any public member may be called at any time.
Spec == Init /\ [][Next]_vars

\* The steps of loading: configuration, fetch starts, completions, teardown.
LoadNext == Configure \/ LoadUrl \/ Complete \/ Destroy \/ Orphan

\* The behaviours in which a Config is only configured and loads its groups:
\* no caller sets the status or fills the model behind its back.
LoadSpec == Init /\ [][LoadNext]_vars

TypeOK ==
    /\ alive \in BOOLEAN
    /\ m_status \in Status
    /\ m_reply \in Handles \cup { NullReply }
    /\ \A h \in Handles : replies[h].st \in { "unused", "running", "finished", "deleted" }
    /\ nCalls \in 0 .. MaxCalls

(* ------------------------------ claims --------------------------------- *)
\* Replies that were started and have not finished.
InFlight == { h \in Handles : replies[h].st = "running" }
\* Replies that were started and not handed to deleteLater.
Outstanding == { h \in Handles : replies[h].st \in { "running", "finished" } }

\* The last step called loadGroupList( url ), directly or from setConfigurationMap.
FetchUrlCalled ==
    \/ last.op = "loadUrl"
    \/ /\ last.op = "configure"
       /\ last.cfg.groupsUrl.type = "String"
       /\ last.cfg.groupsUrl.str \notin { "", Local }
\* The url that call was given.
FetchUrl == IF last.op = "loadUrl" THEN last.arg ELSE last.cfg.groupsUrl.str

\* C1: at most one network operation started by the Config is in flight, in
\* every reachable state.
C1_AtMostOneInFlight == Cardinality(InFlight) <= 1

\* C2: no handle is leaked: every started and not yet released handle is the
\* one m_reply refers to.
C2_NoLeakedHandle == \A h \in Outstanding : m_reply = h

\* C3: loadGroupList( url ) with an empty or invalid URL starts no network
\* operation and creates no handle, Status becomes FailedBadConfiguration, and
\* statusReady is not emitted for that attempt, neither by the call nor by a
\* completion of a reply for that URL.
C3_InvalidUrlStartsNothing ==
    /\ (FetchUrlCalled /\ ~UrlIsValid(FetchUrl)) =>
          /\ last.gets = 0
          /\ last.started = NullReply
          /\ m_status = FailedBadConfiguration
          /\ last.ready = 0
    /\ \A h \in Handles : replies[h].st # "unused" => UrlIsValid(replies[h].url)

\* C4: a completion delivered while no handle is pending, or while the pending
\* handle is unfinished, sets FailedInternalError, publishes nothing, does not
\* emit statusReady, and leaves no outstanding handle behind in m_reply.
C4_EarlyCompletionReleases ==
    (last.op = "complete" /\ last.pending \in { "null", "unfinished" }) =>
        /\ m_status = FailedInternalError
        /\ last.published = << >>
        /\ last.ready = 0
        /\ m_reply = NullReply

\* C5: once the Config is destroyed no fetch of it is outstanding (it was
\* aborted and released) and no completion is handled.
C5_TeardownAborts ==
    ~alive => /\ Outstanding = { }
              /\ last.op # "complete"

\* C6: once Status is a failure state, no completion delivery (with its parse
\* step) changes it.
C6_FailureIsTerminal ==
    [][ (m_status \in Failures /\ last'.op = "complete") => m_status' = m_status ]_vars

\* C7: setConfigurationMap resets Status to Ok before it starts the new
\* attempt: after it, Status is Ok unless this very call failed to start its
\* fetch.
C7_ConfigureResetsStatus ==
    (last.op = "configure") =>
        \/ m_status = Ok
        \/ /\ m_status = FailedBadConfiguration
           /\ FetchUrlCalled
           /\ (last.started = NullReply \/ ~UrlIsValid(FetchUrl))

\* C8: setConfigurationMap on a fresh Config with groupsUrl "local" and the
\* embedded list G publishes exactly G, leaves Status Ok, emits statusReady
\* once and starts no fetch.
C8_LocalLoadIsSynchronous ==
    [][ ( /\ nCalls = 0
          /\ last'.op = "configure"
          /\ last'.cfg.groupsUrl = VString(Local)
          /\ last'.cfg.groups.type = "List" ) =>
        ( /\ last'.published = << last'.cfg.groups.list >>
          /\ model' = last'.cfg.groups.list
          /\ m_status' = Ok
          /\ last'.statusChanged = << >>
          /\ last'.ready = 1
          /\ last'.gets = 0
          /\ last'.started = NullReply
          /\ m_reply' = NullReply
          /\ \A h \in Handles : replies'[h].st = "unused" ) ]_vars

C8_Witness ==
    /\ nCalls = 1
    /\ last.op = "configure"
    /\ last.cfg.groupsUrl = VString(Local)
    /\ last.cfg.groups = VList(<< "A", "B" >>)
    /\ model = << "A", "B" >>
    /\ last.ready = 1

\* C9: a completion for the finished pending handle that reports a transfer
\* error sets FailedNetworkError, does not parse the payload, publishes
\* nothing and does not emit statusReady.
C9_TransferError ==
    [][ ( /\ last'.op = "complete"
          /\ last'.pending = "finished"
          /\ last'.err ) =>
        ( /\ m_status' = FailedNetworkError
          /\ last'.loads = 0
          /\ last'.published = << >>
          /\ model' = model
          /\ last'.ready = 0 ) ]_vars

C9_Witness ==
    /\ last.op = "complete"
    /\ last.pending = "finished"
    /\ last.err
    /\ last.kind = "Sequence"
    /\ m_status = FailedNetworkError

\* C10: a completion whose payload makes the parser throw sets FailedBadData,
\* publishes nothing, does not emit statusReady, and the exception does not
\* leave receivedGroupData.
C10_MalformedDocument ==
    [][ ( /\ last'.op = "complete"
          /\ last'.pending = "finished"
          /\ ~last'.err
          /\ last'.kind = "Malformed" ) =>
        ( /\ m_status' = FailedBadData
          /\ last'.loads = 1
          /\ last'.published = << >>
          /\ model' = model
          /\ last'.ready = 0
          /\ ~last'.uncaught ) ]_vars

C10_Witness ==
    /\ last.op = "complete"
    /\ last.pending = "finished"
    /\ ~last.err
    /\ last.kind = "Malformed"
    /\ m_status = FailedBadData
    /\ last.loads = 1

\* The last step handled the completion of the finished pending reply and the
\* transport reported no error.
CleanCompletion ==
    /\ last.op = "complete"
    /\ last.pending = "finished"
    /\ ~last.err

\* The document of the last step holds a record sequence: it is a top-level
\* sequence, or a mapping whose key groups holds a sequence.
HasRecords ==
    \/ last.doc.kind = "Sequence"
    \/ last.doc.kind = "Map" /\ last.doc.groups.type = "List"
\* That record sequence.
Records ==
    IF last.doc.kind = "Sequence" THEN last.doc.seq ELSE last.doc.groups.list

\* C11: an error-free completion whose payload is a top-level sequence S, or a
\* mapping whose key groups holds a sequence S, publishes exactly S (also when
\* S is empty), leaves Status as it was and emits statusReady.
C11_RecordsPublished ==
    [][ (CleanCompletion' /\ HasRecords') =>
        ( /\ last'.published = << Records' >>
          /\ model' = Records'
          /\ m_status' = m_status
          /\ last'.statusChanged = << >>
          /\ last'.ready = 1 ) ]_vars

C11_Witness ==
    /\ CleanCompletion
    /\ last.doc = Doc("Map", << >>, VList(<< "A" >>))
    /\ model = << "A" >>
    /\ last.ready = 1

\* C12: an error-free completion whose payload is neither a sequence nor a
\* mapping with a sequence under groups (a scalar, a null document, a mapping
\* without groups, a mapping whose groups is no sequence) publishes nothing,
\* does not emit statusReady and leaves Status unchanged.
C12_UnusableShapeIsSilent ==
    [][ (CleanCompletion' /\ last'.doc.kind # "Malformed" /\ ~HasRecords') =>
        ( /\ last'.published = << >>
          /\ model' = model
          /\ last'.ready = 0
          /\ m_status' = m_status ) ]_vars

\* C13: after receivedGroupData handled the completion of the finished pending
\* reply, that reply is released and m_reply is null, on every exit path.
C13_HandleReleased ==
    (last.op = "complete" /\ last.pending = "finished") =>
        /\ m_reply = NullReply
        /\ last.released = last.handle
        /\ replies[last.handle].st = "deleted"

C13_Witness ==
    /\ last.op = "complete"
    /\ last.pending = "finished"
    /\ last.err
    /\ m_status = FailedNetworkError
    /\ m_reply = NullReply
    /\ replies[last.handle].st = "deleted"

\* C14: statusReady is emitted at most once per load attempt (one
\* setConfigurationMap call and the completion of the fetch it started), and
\* once when records were extracted; one setConfigurationMap call writes the
\* key/value store at most once and starts at most one fetch.
C14_OncePerAttempt ==
    [][ /\ (last'.op = "configure") =>
              /\ last'.ready <= 1
              /\ last'.gsWrites <= 1
              /\ last'.gets <= 1
              /\ (last'.started # NullReply => last'.ready = 0)
              /\ (last'.cfg.groupsUrl = VString(Local) => last'.ready = 1)
        /\ (last'.op = "complete") =>
              /\ replies[last'.handle].st = "running"
              /\ last'.ready <= 1
              /\ ((CleanCompletion' /\ HasRecords') => last'.ready = 1)
        /\ \A h \in Handles :
              replies[h].st \in { "finished", "deleted" } => replies'[h].st # "running"
      ]_vars

C14_Witness ==
    /\ CleanCompletion
    /\ last.doc = Doc("Sequence", << "A", "B" >>, VInvalid)
    /\ last.ready = 1
    /\ gs = { GoodUrl }
    /\ replies[last.handle].st = "deleted"

\* The last step ended a load attempt: a setConfigurationMap or
\* loadGroupList( url ) call returned without a fetch in flight for it (the
\* load was synchronous, could not be started or was not triggered at all),
\* or a completion was handled.
AttemptEnded ==
    \/ last.op \in { "configure", "loadUrl" } /\ last.started = NullReply
    \/ last.op = "complete"

\* C15: whenever a load attempt ended without statusReady, Status is one of
\* the four failure states and its description is not empty.
C15_SilenceHasCause ==
    (AttemptEnded /\ last.ready = 0) =>
        /\ m_status \in Failures
        /\ status(m_status) # ""

\* The number of setStatus calls the last step makes, from its inputs.
SetStatusCalls ==
    IF FetchUrlCalled
    THEN (IF UrlIsValid(FetchUrl) THEN 0 ELSE 1) + (IF last.started = NullReply THEN 1 ELSE 0)
    ELSE IF last.op = "complete"
         THEN (IF last.pending # "finished" \/ last.err \/ last.doc.kind = "Malformed"
               THEN 1 ELSE 0)
         ELSE IF last.op = "setStatus" THEN 1 ELSE 0

\* C16: every setStatus call emits one statusChanged carrying the description
\* of the new status (retranslate emits one more, with the current
\* description, and changes nothing); the description is empty exactly for
\* Ok, and the four failure states have descriptions of their own.
C16_TransitionsAreNotified ==
    [][ /\ (m_status' # m_status) => last'.statusChanged # << >>
        /\ Len(last'.statusChanged) =
              SetStatusCalls' + (IF last'.op = "retranslate" THEN 1 ELSE 0)
        /\ (last'.op = "setStatus") => m_status' = last'.arg
        /\ \A i \in 1 .. Len(last'.statusChanged) :
              last'.statusChanged[i] = status(m_status')
        /\ \A s \in Status : (status(s) = "") <=> (s = Ok)
        /\ \A s, t \in Failures : status(s) = status(t) => s = t
      ]_vars

C16_Witness ==
    /\ last.op = "complete"
    /\ last.pending = "finished"
    /\ last.err
    /\ last.statusChanged = << status(FailedNetworkError) >>
    /\ last.statusChanged # << "" >>

\* C17: after setConfigurationMap on a fresh Config, m_urls holds, in order,
\* the resolution of each string of groupsUrl (none when absent, one for a
\* string, n for a list of n strings, be it a string list or a variant list
\* holding strings); a "local" source carries no URL and the embedded groups,
\* any other source carries its URL and no data.
C17_SourcesResolved ==
    [][ ( /\ nCalls = 0
          /\ last'.op = "configure" ) =>
        LET cfg == last'.cfg
            \* the strings the configuration holds under groupsUrl
            strings == IF cfg.groupsUrl.type = "String" THEN << cfg.groupsUrl.str >>
                       ELSE IF cfg.groupsUrl.type \in { "StringList", "List" }
                            THEN cfg.groupsUrl.list
                            ELSE << >>
            \* the Source the claim expects for one of them
            expected(str) ==
                IF str = Local
                THEN [ url |-> [ valid |-> FALSE, text |-> "" ],
                       data |-> toList(cfg.groups) ]
                ELSE [ url |-> [ valid |-> UrlIsValid(str),
                                 text |-> IF UrlIsValid(str) THEN str ELSE "" ],
                       data |-> << >> ]
        IN  /\ Len(m_urls') = Len(strings)
            /\ \A i \in 1 .. Len(m_urls') : m_urls'[i] = expected(strings[i])
            /\ \A i \in 1 .. Len(m_urls') :
                  \/ m_urls'[i].url.text = ""
                  \/ m_urls'[i].data = << >> ]_vars

\* The groupsUrl entry of the last configuration map is no non-empty string:
\* it is absent, an empty string or a list.
NoScalarGroupsUrl ==
    \/ last.cfg.groupsUrl.type # "String"
    \/ last.cfg.groupsUrl.str = ""

\* C18: when groupsUrl is absent, an empty string or a list of strings,
\* setConfigurationMap starts no fetch, publishes nothing, emits no
\* statusReady, writes nothing to the key/value store and leaves Status as it
\* was, even when the list filled m_urls.
C18_OnlyScalarTriggersLoad ==
    [][ (last'.op = "configure" /\ NoScalarGroupsUrl') =>
        ( /\ last'.gets = 0
          /\ last'.started = NullReply
          /\ m_reply' = m_reply
          /\ replies' = replies
          /\ last'.published = << >>
          /\ model' = model
          /\ last'.ready = 0
          /\ last'.gsWrites = 0
          /\ gs' = gs
          /\ last'.statusChanged = << >>
          /\ m_status' = m_status ) ]_vars

C18_Witness ==
    /\ nCalls = 1
    /\ last.op = "configure"
    /\ last.cfg.groupsUrl = VStringList(<< Local, GoodUrl >>)
    /\ Len(m_urls) = 2
    /\ gs = { }
    /\ last.ready = 0
    /\ InFlight = { }

\* C19: whenever statusReady is emitted, Status is Ok.
C19_ReadyImpliesOk ==
    last.ready > 0 => m_status = Ok

\* C20: the reply receivedGroupData inspects, reads and releases is the one
\* whose finished() was emitted, so a completed fetch is never reported as
\* FailedInternalError.
C20_CompletionMatchesReply ==
    (last.op = "complete") =>
        /\ last.pending = "finished"
        /\ last.released = last.handle
        /\ m_status # FailedInternalError
====
